---- MODULE Spec2Model ----
(***************************************************************************)
(* State-machine model of the anpr-vms server: the FFmpeg manager (live    *)
(* HLS segmenters and recordings), the in-memory store, the health         *)
(* monitor, the ANPR worker and the broadcast calls of the routes.         *)
(*                                                                         *)
(* Scheduling.  The server is one Node.js event loop.  A handler runs      *)
(* until it awaits real I/O (fs.mkdir, fs.stat, fs.unlink, a child         *)
(* process); an await on a MemStorage method or on another async function  *)
(* that has not reached I/O is resumed from the promise job queue of the   *)
(* same turn, before any other request, timer or child-process event is    *)
(* dispatched.  So every action below is one turn of the event loop: the   *)
(* code from one I/O await of a handler to its next one.                   *)
(***************************************************************************)
EXTENDS Integers, Sequences, FiniteSets, TLC

\* ---------------------------------------------------------------- bounds
\* Camera ids randomUUID can hand out, ingress URLs a client may send.
CamIds == {"c1", "c2"}
NoCam == "none"
UrlLan == "rtsp://192.168.1.100/s"
UrlWan == "rtsp://10.0.0.7/s"
Urls == {UrlLan, UrlWan}
\* Handler invocations (requests, timer callbacks, prober starts) in one run.
MaxHandlers == 4
\* Live segmenter child processes spawned in one run.
MaxProcs == 3
\* How far the clock runs: restart delays (live pipeline), steps of StepMs
\* and days (recordings and retention).
MaxDelays == 1
MaxSteps == 1
MaxDays == 1
\* The clock step of the recording runs, ms: no whole number of seconds.
StepMs == 1500
\* Clients that may connect to /ws.
WsIds == {"w1"}
\* Recordings created in one run.
MaxRecs == 2
\* processFrame invocations in an ANPR run.
MaxReads == 2
\* Candidate regions the detector returns for one frame.
MaxDets == 1
\* Clock steps of AnprStepMs in an ANPR run; the step is half a dedup bucket.
MaxAnprSteps == 2
AnprStepMs == 2500
\* Detector confidences and camera thresholds, in hundredths.
Confs == {70, 90}
Thresholds == {80, 95}
Plates == {"ABC1234", "XYZ7890"}
\* Usernames and passwords a client may send; NoUser is null, NoPassword a
\* body without the key.
NoUser == "null"
NoPassword == "absent"
Usernames == {NoUser, "", "admin"}
Passwords == {NoPassword, "", "secret"}
\* camera.recording.mode
Modes == {"off", "manual", "continuous"}
DefaultMode == "off"
NoPlate == "none"
\* Texts EasyOCR may read in a plate region, and the entries of runOCR's
\* fallback list plateFormats that the model draws.
RawTexts == {"abc 1234", "XYZ7890", "ab"}
plateFormats == {"ABC-1234", "123-ABC"}
\* Credentials handed to encryptCredentials (UTF-16 code units: a, p, w, e
\* acute, a lone high surrogate), the bytes randomBytes may return (one byte
\* standing for the sixteen), and the characters a changed string may carry.
Plaintexts == {<<97>>, <<112, 119>>, <<97, 233>>, <<55296>>}
Ivs == {<<0>>, <<171>>}
TamperChars == {"0", "f", "z", ":"}
\* Longest string encryptCredentials returns for these inputs.
MaxStringLen == 14

\* ------------------------------------------------------ program constants
RestartDelayMs == 5000
MsPerSec == 1000
DayMs == 86400000
DedupBucketMs == 5000
PruneAgeMs == 30000

NoProc == 0
NoRec == 0
Null == -1

VARIABLES
  now,               \* Date.now(), ms
  calls,             \* handler invocations so far (bounds the run)
  response,          \* the last HTTP response sent: [res, cam, rec]
  cameras,           \* MemStorage.cameras: id -> row, or NoRow
  usedIds,           \* ids randomUUID has produced for cameras
  recRows,           \* MemStorage.recordings: sequence of rows (id = index)
  anprRows,          \* MemStorage.anprEvents: sequence of rows
  files,             \* paths of recording files on disk
  frames,            \* paths of temporary ANPR frame files on disk
  streams,           \* FFmpegManager.streams: camera id -> pid or NoProc
  procs,             \* live segmenter child processes: pid -> [cam, st]
  recordings,        \* FFmpegManager.recordings: camera id -> recording id or NoRec
  recProcs,          \* recording child processes, by recording id: state
  timers,            \* armed crash-restart timers: sequence of [cam, due]
  monitoredCameras,  \* HealthMonitor.monitoredCameras (insertion ordered)
  processingCache,   \* AnprWorker.processingCache: camera id -> set of keys, or NoCache
  events,            \* calls of broadcast / emit, in order
  wsOpen,            \* wss.clients: the clients with an open connection to /ws
  wsClients,         \* the wsClients set that broadcast walks
  plaintext,         \* the credential handed to encryptCredentials (code units)
  issued,            \* the string encryptCredentials returned, or NoString
  sealed,            \* the string as it is now held (possibly altered since)
  opened,            \* what decryptCredentials made of sealed, or NotOpened
  effect,            \* useWebSocket's effect: "none", "active" or "cleaned"
  sockets,           \* the WebSocket objects connect made, in order: readyState
  wsCurrent,         \* ws.current: index into sockets, 0 for null
  reconnectTimer,    \* due time of the pending reconnect timeout, or Null
  clientNow,         \* the browser's clock (ms)
  h                  \* handler invocations: index -> [kind, cam, pc, ...]

vars == <<now, calls, response, cameras, usedIds, recRows, anprRows, files, frames, streams, procs,
          recordings, recProcs, timers, monitoredCameras, processingCache, events, wsOpen,
          wsClients, plaintext, issued, sealed, opened, effect, sockets, wsCurrent,
          reconnectTimer, clientNow, h>>

storeVars == <<cameras, usedIds, recRows, anprRows, files, frames>>
liveVars == <<streams, procs, timers>>
recVars == <<recordings, recProcs>>
anprVars == <<processingCache>>
clockVars == <<now>>
wsVars == <<wsOpen, wsClients>>
sealVars == <<plaintext, issued, sealed, opened>>
hookVars == <<effect, sockets, wsCurrent, reconnectTimer, clientNow>>

\* ------------------------------------------------- credential encryption
\* Strings are sequences of one-character strings; a credential is a
\* sequence of UTF-16 code units.
HexDigits == <<"0", "1", "2", "3", "4", "5", "6", "7", "8", "9", "a", "b", "c", "d", "e", "f">>
NoString == <<>>
NotOpened == [st |-> "none", text |-> <<>>]
Throws == [st |-> "throws", text |-> <<>>]
Returned(text) == [st |-> "ok", text |-> text]

\* Buffer.toString("hex"): two digits per byte.
RECURSIVE toHex(_)
toHex(bytes) ==
  IF bytes = <<>> THEN <<>>
  ELSE <<HexDigits[(Head(bytes) \div 16) + 1], HexDigits[(Head(bytes) % 16) + 1]>>
         \o toHex(Tail(bytes))

hexVal(ch) == IF \E k \in 1..16 : HexDigits[k] = ch
              THEN (CHOOSE k \in 1..16 : HexDigits[k] = ch) - 1
              ELSE -1

\* Buffer.from(str, "hex") and the "hex" input encoding of update: whole
\* pairs of hex digits up to the first character that is not one.
RECURSIVE fromHex(_)
fromHex(str) ==
  IF Len(str) < 2 \/ hexVal(str[1]) < 0 \/ hexVal(str[2]) < 0 THEN <<>>
  ELSE <<16 * hexVal(str[1]) + hexVal(str[2])>> \o fromHex(SubSeq(str, 3, Len(str)))

\* encryptedText.split(":")
RECURSIVE split(_)
split(str) ==
  IF \A k \in 1..Len(str) : str[k] # ":" THEN <<str>>
  ELSE LET k == CHOOSE j \in 1..Len(str) : str[j] = ":" /\ \A m \in 1..(j - 1) : str[m] # ":"
       IN <<SubSeq(str, 1, k - 1)>> \o split(SubSeq(str, k + 1, Len(str)))

\* The "utf8" input encoding of cipher.update: one to three bytes per code
\* unit; a surrogate that is not part of a pair becomes U+FFFD (ef bf bd).
utf8Of(c) ==
  IF c < 128 THEN <<c>>
  ELSE IF c < 2048 THEN <<192 + (c \div 64), 128 + (c % 64)>>
  ELSE IF c \in 55296..57343 THEN <<239, 191, 189>>
  ELSE <<224 + (c \div 4096), 128 + ((c \div 64) % 64), 128 + (c % 64)>>

RECURSIVE utf8Encode(_)
utf8Encode(text) == IF text = <<>> THEN <<>> ELSE utf8Of(Head(text)) \o utf8Encode(Tail(text))

\* The "utf8" output encoding of decipher.update / final.
isCont(bytes, k) == k <= Len(bytes) /\ bytes[k] \in 128..191
RECURSIVE utf8Decode(_)
utf8Decode(bytes) ==
  IF bytes = <<>> THEN <<>>
  ELSE LET b == Head(bytes) IN
       IF b < 128 THEN <<b>> \o utf8Decode(Tail(bytes))
       ELSE IF b \in 194..223 /\ isCont(bytes, 2)
       THEN <<(b - 192) * 64 + (bytes[2] - 128)>> \o utf8Decode(SubSeq(bytes, 3, Len(bytes)))
       ELSE IF b \in 224..239 /\ isCont(bytes, 2) /\ isCont(bytes, 3)
       THEN <<(b - 224) * 4096 + (bytes[2] - 128) * 64 + (bytes[3] - 128)>>
              \o utf8Decode(SubSeq(bytes, 4, Len(bytes)))
       ELSE <<65533>> \o utf8Decode(Tail(bytes))

\* crypto.createCipher(ALGORITHM, ENCRYPTION_KEY): key and counter block both
\* derived from ENCRYPTION_KEY alone, so the keystream is the same on every
\* call.  The cipher is abstracted as a bytewise stream cipher and the GCM
\* tag as a two-byte keyed checksum of the encrypted body and its length.
keyStream(k) == (173 + 31 * k) % 256
cipherBytes(bytes) == [k \in 1..Len(bytes) |-> (bytes[k] + keyStream(k)) % 256]
decipherBytes(bytes) == [k \in 1..Len(bytes) |-> (bytes[k] + 256 - keyStream(k)) % 256]

RECURSIVE weighted(_, _, _)
weighted(bytes, k, step) ==
  IF k > Len(bytes) THEN 0 ELSE (2 * k + step) * bytes[k] + weighted(bytes, k + 1, step)

getAuthTag(body) == <<(91 + 17 * Len(body) + weighted(body, 1, -1)) % 256,
                      (29 + Len(body) + weighted(body, 1, 5)) % 256>>

\* decipher.setAuthTag(authTag) then final(): an empty tag is refused; a tag
\* shorter than the one issued is compared over its own length.
tagVerifies(tag, body) ==
  /\ tag # <<>>
  /\ Len(tag) <= Len(getAuthTag(body))
  /\ tag = SubSeq(getAuthTag(body), 1, Len(tag))

\* encryptCredentials(text) with iv the bytes crypto.randomBytes returned:
\* iv goes into the string and nowhere else.
encryptCredentials(text, iv) ==
  LET encrypted == cipherBytes(utf8Encode(text))
  IN toHex(iv) \o <<":">> \o toHex(getAuthTag(encrypted)) \o <<":">> \o toHex(encrypted)

\* decryptCredentials(encryptedText): a missing second or third field is
\* undefined and makes Buffer.from / update throw; the iv is decoded and not
\* used.
decryptCredentials(encryptedText) ==
  LET f == split(encryptedText) IN
  IF Len(f) < 3 THEN Throws
  ELSE LET authTag == fromHex(f[2])
           encrypted == fromHex(f[3])
       IN IF tagVerifies(authTag, encrypted)
          THEN Returned(utf8Decode(decipherBytes(encrypted)))
          ELSE Throws

\* No credential has been encrypted.
SealIdle ==
  /\ plaintext = <<>>
  /\ issued = NoString
  /\ sealed = NoString
  /\ opened = NotOpened
\* useWebSocket before its component is mounted.
HookIdle ==
  /\ effect = "none"
  /\ sockets = <<>>
  /\ wsCurrent = 0
  /\ reconnectTimer = Null
  /\ clientNow = 0
callVars == <<calls, response, h>>

NoRow == [present |-> FALSE]
NoCache == {<<"nocache", 0>>}

\* rec: the recording a handler holds; thr: the ANPR threshold it read;
\* t: the time it captured (a recording's start or end, a frame's name).
\* queue, cams: the recordings and cameras a retention sweep has still to visit.
\* row: the camera object a camera route got from the store and will return.
\* fallback: the regions an ANPR tick works on come from detectPlates' catch.
Free == [kind |-> "none", cam |-> NoCam, pc |-> "free", rec |-> 0, thr |-> 0, t |-> 0,
         queue |-> <<>>, cams |-> <<>>, row |-> NoRow, fallback |-> FALSE,
         plateText |-> NoPlate, conf |-> 0]

Handlers == 1..MaxHandlers
\* n more invocations fit in the run.
HasFree(n) == calls + n <= MaxHandlers
\* body: the camera objects a camera endpoint returned (their credential fields).
NoResponse == [res |-> "none", cam |-> NoCam, rec |-> 0, body |-> {}]
Respond(res, c, id) == [res |-> res, cam |-> c, rec |-> id, body |-> {}]

Exists(c) == c \in CamIds /\ cameras[c].present

\* -------------------------------------------------------------- the store
\* drizzle defaults of the cameras table; MemStorage.createCamera.
DefaultRetainDays == 7
DefaultThreshold == 80

\* MemStorage.createCamera: the insert's columns, status "offline", and
\* encryptedPassword null whatever the insert carried.  The row has no
\* password key (the route removed it from the insert).
createCameraAs(url, hls, retain, thr, user) ==
  [present |-> TRUE, rtspUrl |-> url, hls |-> hls, status |-> "offline",
   retainDays |-> retain, anprEnabled |-> TRUE, confidenceThreshold |-> thr,
   username |-> user, encryptedPassword |-> "null", password |-> NoPassword,
   mode |-> DefaultMode]

createCamera(url, hls, retain, thr) == createCameraAs(url, hls, retain, thr, NoUser)

\* JavaScript truthiness of a string-or-null value.
truthy(x) == x \notin {NoUser, NoPassword, ""}

\* What the camera routes put in a response: the row with encryptedPassword
\* undefined (left out of the JSON) and the username masked.
safeCamera(row) ==
  [username |-> IF truthy(row.username) THEN "[HIDDEN]" ELSE "null",
   encryptedPassword |-> "undefined",
   password |-> row.password]

\* startHLSStream, startRecording, extractFrame: the ingress URL gets
\* username:password@ when camera.username && camera.encryptedPassword.
urlCarriesCredentials(row) == truthy(row.username) /\ row.encryptedPassword # "null"

RespondCamera(res, c, rows) == [Respond(res, c, 0) EXCEPT !.body = {safeCamera(r) : r \in rows}]

\* -------------------------------------------------------- FFmpegManager
\* ChildProcess.kill('SIGTERM'): the signal is sent, the exit event comes later.
Kill(ps, p) == IF p # NoProc /\ ps[p].st = "running"
               THEN [ps EXCEPT ![p].st = "killed"] ELSE ps

\* stopStream: kill the tracked process and forget it.
stopStreamProcs(ps, ss, c) == Kill(ps, ss[c])
stopStreamStreams(ss, c) == [ss EXCEPT ![c] = NoProc]

\* startHLSStream after fs.mkdir: spawn and track.
SpawnLive(c) ==
  /\ procs' = Append(procs, [cam |-> c, st |-> "running"])
  /\ streams' = [streams EXCEPT ![c] = Len(procs) + 1]

Running(c) == {p \in 1..Len(procs) : procs[p].cam = c /\ procs[p].st = "running"}

\* The slot a new invocation takes: the first one not in use.
FreeSlotIn(hh) == CHOOSE i \in Handlers :
                    /\ hh[i].pc = "free"
                    /\ \A j \in Handlers : j < i => hh[j].pc # "free"
FreeSlot == FreeSlotIn(h)
\* A handler has returned: its slot is free again.
Done(hh, i) == [hh EXCEPT ![i] = Free]

\* broadcast: the frame goes to the members of wsClients whose socket is OPEN.
Receivers == {ws \in wsClients : ws \in wsOpen}

\* One call of broadcast (or an emit that routes.ts forwards to it): the
\* topic, the camera and row it is about, the status a camera-status carries,
\* and the clients the frame was sent to.
Ev(topic, c, id) == [topic |-> topic, cam |-> c, id |-> id, status |-> "none", to |-> Receivers,
                     data |-> {}]
\* broadcast('camera-added' | 'camera-updated', camera): data is the camera
\* object storage returned, serialized as it is (its credential fields).
EvCamera(topic, c, row) ==
  [Ev(topic, c, 0) EXCEPT !.data = {[username |-> row.username,
                                     encryptedPassword |-> row.encryptedPassword,
                                     password |-> row.password]}]
EvStatus(c, status) == [Ev("camera-status", c, 0) EXCEPT !.status = status]

\* startHLSStream up to its await of fs.mkdir, called from handler slot i of
\* kind k: getCamera succeeded, stopStream, then the handler waits for mkdir.
StartHLSBegin(st, c, k) ==
  LET i == FreeSlotIn(st.hh) IN
  [st EXCEPT !.ps = stopStreamProcs(st.ps, st.ss, c),
             !.ss = stopStreamStreams(st.ss, c),
             !.n = st.n + 1,
             !.hh = [st.hh EXCEPT ![i] = [Free EXCEPT !.kind = k, !.cam = c, !.pc = "mkdir"]]]

LiveState == [mon |-> monitoredCameras, ev |-> events, ps |-> procs, ss |-> streams, hh |-> h,
              n |-> calls]

\* The camera object handler slot i keeps for its response.
WithRow(st, i, row) == [st EXCEPT !.hh[i].row = row]

SetLive(st) ==
  /\ monitoredCameras' = st.mon
  /\ events' = st.ev
  /\ procs' = st.ps
  /\ streams' = st.ss
  /\ h' = st.hh
  /\ calls' = st.n


\* ------------------------------------------------------------- routes
NewId == CHOOSE c \in CamIds \ usedIds : TRUE

addCamera(mon, c) == IF \E k \in 1..Len(mon) : mon[k] = c THEN mon ELSE Append(mon, c)
removeCamera(mon, c) == SelectSeq(mon, LAMBDA x : x # c)

\* POST /api/cameras up to the await of fs.mkdir inside startHLSStream (or to
\* its response when the camera has no 'hls' key in enabledProtocols).
\* The body's password is encrypted when truthy and removed from the insert
\* either way; the insert keeps the username.
PostCameraWith(url, hls, user, pw) ==
  /\ usedIds # CamIds
  /\ HasFree(1)
  /\ LET c == NewId
         camera == createCameraAs(url, hls, DefaultRetainDays, DefaultThreshold, user)
         st0 == [LiveState EXCEPT !.mon = addCamera(monitoredCameras, c)]
     IN
     /\ cameras' = [cameras EXCEPT ![c] = camera]
     /\ usedIds' = usedIds \cup {c}
     /\ IF hls
        THEN /\ SetLive(WithRow(StartHLSBegin(st0, c, "postCamera"), FreeSlot, camera))
             /\ UNCHANGED response
        ELSE /\ SetLive([st0 EXCEPT !.ev = Append(events, EvCamera("camera-added", c, camera)),
                                    !.n = calls + 1])
             /\ response' = RespondCamera("201", c, {camera})
  /\ UNCHANGED <<hookVars, sealVars, wsVars, clockVars, recRows, anprRows, files, frames, timers, recVars, anprVars>>

\* POST /api/cameras for a camera without credentials.
PostCamera(url, hls) == PostCameraWith(url, hls, NoUser, NoPassword)

\* startHLSStream from the completion of fs.mkdir: spawn, track, return to
\* the caller (the POST and PUT routes then broadcast and answer).
StartHLSResume(i) ==
  /\ h[i].pc = "mkdir"
  /\ h[i].kind \in {"postCamera", "putCamera", "prober", "timer"}
  /\ Len(procs) < MaxProcs
  /\ SpawnLive(h[i].cam)
  /\ h' = Done(h, i)
  /\ response' = CASE h[i].kind = "postCamera" -> RespondCamera("201", h[i].cam, {h[i].row})
                    [] h[i].kind = "putCamera" -> RespondCamera("200", h[i].cam, {h[i].row})
                    [] OTHER -> response
  /\ events' = CASE h[i].kind = "postCamera" -> Append(events, EvCamera("camera-added", h[i].cam, h[i].row))
                 [] h[i].kind = "putCamera" -> Append(events, EvCamera("camera-updated", h[i].cam, h[i].row))
                 [] OTHER -> events
  /\ UNCHANGED <<hookVars, sealVars, wsVars, clockVars, calls, storeVars, timers, recVars, anprVars, monitoredCameras>>

\* startHLSStream when fs.mkdir rejects: nothing is spawned or tracked and the
\* rejection reaches the caller. The POST and PUT routes answer 400 from their
\* catch block without a broadcast; the prober and the restart timer log it.
StartHLSMkdirFails(i) ==
  /\ h[i].pc = "mkdir"
  /\ h[i].kind \in {"postCamera", "putCamera", "prober", "timer"}
  /\ h' = Done(h, i)
  /\ response' = IF h[i].kind \in {"postCamera", "putCamera"}
                 THEN Respond("400", h[i].cam, 0)
                 ELSE response
  /\ UNCHANGED <<hookVars, sealVars, wsVars, clockVars, calls, storeVars, liveVars, recVars, anprVars,
                 monitoredCameras, events>>

\* PUT /api/cameras/:id with a new ingress URL: updateCamera, restartStream
\* (stopStream, then startHLSStream up to fs.mkdir).
PutCameraUrl(c, url) ==
  /\ Exists(c)
  /\ HasFree(1)
  /\ cameras' = [cameras EXCEPT ![c].rtspUrl = url]
  /\ LET st0 == [LiveState EXCEPT !.ps = stopStreamProcs(procs, streams, c),
                                  !.ss = stopStreamStreams(streams, c)]
     IN SetLive(WithRow(StartHLSBegin(st0, c, "putCamera"), FreeSlot,
                        [cameras[c] EXCEPT !.rtspUrl = url]))
  /\ UNCHANGED <<hookVars, sealVars, wsVars, clockVars, response, usedIds, recRows, anprRows, files, frames, timers, recVars, anprVars>>

\* PUT /api/cameras/:id changing only the ANPR confidence threshold.
PutCameraAnpr(c, thr) ==
  /\ Exists(c)
  /\ HasFree(1)
  /\ cameras' = [cameras EXCEPT ![c].confidenceThreshold = thr]
  /\ calls' = calls + 1
  /\ response' = RespondCamera("200", c, {cameras'[c]})
  /\ events' = Append(events, EvCamera("camera-updated", c, cameras'[c]))
  /\ UNCHANGED <<hookVars, sealVars, wsVars, clockVars, h, usedIds, recRows, anprRows, files, frames, liveVars, recVars, anprVars,
                 monitoredCameras>>

\* PUT /api/cameras/:id with a username and, when pw is not NoPassword, a
\* password: a truthy password is encrypted and removed from the update (the
\* encrypted value is dropped); any other update goes to updateCamera as it
\* is, which spreads it over the row.
PutCameraCreds(c, user, pw) ==
  /\ Exists(c)
  /\ HasFree(1)
  /\ cameras' = [cameras EXCEPT ![c].username = user,
                                ![c].password = IF pw # NoPassword /\ ~truthy(pw) THEN pw ELSE @]
  /\ calls' = calls + 1
  /\ response' = RespondCamera("200", c, {cameras'[c]})
  /\ events' = Append(events, EvCamera("camera-updated", c, cameras'[c]))
  /\ UNCHANGED <<hookVars, sealVars, wsVars, clockVars, h, usedIds, recRows, anprRows, files, frames, liveVars,
                 recVars, anprVars, monitoredCameras>>

\* PUT /api/cameras/:id with a recording object {mode, retainDays}:
\* updateCamera replaces the row's recording object; no stream restart and
\* no recording command follows.
PutCameraRecording(c, mode, retain) ==
  /\ Exists(c)
  /\ HasFree(1)
  /\ cameras' = [cameras EXCEPT ![c].mode = mode, ![c].retainDays = retain]
  /\ calls' = calls + 1
  /\ response' = RespondCamera("200", c, {cameras'[c]})
  /\ events' = Append(events, EvCamera("camera-updated", c, cameras'[c]))
  /\ UNCHANGED <<hookVars, sealVars, wsVars, clockVars, h, usedIds, recRows, anprRows, files, frames,
                 liveVars, recVars, anprVars, monitoredCameras>>

\* GET /api/cameras.
GetCameras ==
  /\ response' = RespondCamera("200 list", NoCam, {cameras[c] : c \in {x \in CamIds : Exists(x)}})
  /\ UNCHANGED <<hookVars, sealVars, wsVars, clockVars, calls, h, storeVars, liveVars, recVars, anprVars,
                 monitoredCameras, events>>

\* GET /api/cameras/:id (getCameraWithStats).
GetCamera(c) ==
  /\ response' = IF Exists(c) THEN RespondCamera("200", c, {cameras[c]})
                 ELSE Respond("404 Camera not found", c, 0)
  /\ UNCHANGED <<hookVars, sealVars, wsVars, clockVars, calls, h, storeVars, liveVars, recVars, anprVars,
                 monitoredCameras, events>>

\* DELETE /api/cameras/:id: deleteCamera, removeCamera, stopStream, broadcast.
DeleteCamera(c) ==
  /\ Exists(c)
  /\ cameras' = [cameras EXCEPT ![c] = NoRow]
  /\ monitoredCameras' = removeCamera(monitoredCameras, c)
  /\ procs' = stopStreamProcs(procs, streams, c)
  /\ streams' = stopStreamStreams(streams, c)
  /\ events' = Append(events, Ev("camera-deleted", c, 0))
  /\ response' = Respond("204", c, 0)
  /\ UNCHANGED <<hookVars, sealVars, wsVars, clockVars, calls, h, usedIds, recRows, anprRows, files, frames, timers,
                 recVars, anprVars>>

\* -------------------------------------------------------- HealthMonitor
\* simulateNetworkCheck: localhost and 192.168.x.x are reachable.
simulateNetworkCheck(url) == url = UrlLan

checkCamera(st, c) ==
  IF ~Exists(c)
  THEN [st EXCEPT !.mon = removeCamera(st.mon, c)]
  ELSE LET lastStatus == cameras[c].status
           newStatus == IF simulateNetworkCheck(cameras[c].rtspUrl) THEN "online" ELSE "offline"
       IN IF lastStatus # newStatus
          THEN LET st1 == [st EXCEPT !.ev = Append(st.ev, EvStatus(c, newStatus))]
               IN IF newStatus = "online" /\ lastStatus # "online"
                  THEN StartHLSBegin(st1, c, "prober")
                  ELSE st1
          ELSE st

\* MemStorage.getSystemStats().activeCameras: the rows with status "online".
activeCameras == Cardinality({c \in CamIds : Exists(c) /\ cameras[c].status = "online"})

RECURSIVE checkAllCameras(_, _)
checkAllCameras(st, mon) ==
  IF mon = <<>> THEN st
  ELSE checkAllCameras(checkCamera(st, Head(mon)), Tail(mon))

\* The cameras a tick starts a live pipeline for (one handler slot each).
ProberStarts == {k \in 1..Len(monitoredCameras) :
                   /\ Exists(monitoredCameras[k])
                   /\ simulateNetworkCheck(cameras[monitoredCameras[k]].rtspUrl)
                   /\ cameras[monitoredCameras[k]].status # "online"}

\* One firing of the 30 s interval: checkAllCameras over the monitored set.
HealthTick ==
  /\ monitoredCameras # <<>>
  /\ HasFree(Cardinality(ProberStarts))
  /\ SetLive(checkAllCameras(LiveState, monitoredCameras))
  /\ UNCHANGED <<hookVars, sealVars, wsVars, clockVars, response, storeVars, timers, recVars, anprVars>>

\* ------------------------------------------- live child process events
\* The 'exit' handler of a live segmenter (startHLSStream): forget the
\* camera's stream, and on a non-zero code arm the 5 s restart timer. A
\* process ended by SIGTERM reports code 255 or null, both !== 0.
LiveChildExit(p, code) ==
  /\ p \in 1..Len(procs)
  /\ procs[p].st \in {"running", "killed"}
  /\ procs[p].st = "killed" => code # 0
  /\ procs' = [procs EXCEPT ![p].st = "exited"]
  /\ streams' = [streams EXCEPT ![procs[p].cam] = NoProc]
  /\ timers' = IF code # 0
               THEN Append(timers, [cam |-> procs[p].cam, due |-> now + RestartDelayMs])
               ELSE timers
  /\ UNCHANGED <<hookVars, sealVars, wsVars, clockVars, callVars, storeVars, recVars, anprVars, monitoredCameras, events>>

RemoveAt(s, k) == [j \in 1..(Len(s) - 1) |-> IF j < k THEN s[j] ELSE s[j + 1]]

\* The restart timer fires: startHLSStream(cameraId).catch(console.error).
TimerFire(k) ==
  /\ k \in 1..Len(timers)
  /\ timers[k].due <= now
  /\ timers' = RemoveAt(timers, k)
  /\ IF Exists(timers[k].cam)
     THEN /\ HasFree(1)
          /\ SetLive(StartHLSBegin(LiveState, timers[k].cam, "timer"))
     ELSE UNCHANGED <<monitoredCameras, events, procs, streams, h, calls>>
  /\ UNCHANGED <<hookVars, sealVars, wsVars, clockVars, response, storeVars, recVars, anprVars>>

\* The clock is a sum of steps of three sizes (the largest is a day, or
\* 30 s in the ANPR runs); Elapsed(d) is how many steps of d ms it has made.
Elapsed(d) == IF d >= PruneAgeMs THEN now \div d
              ELSE (now % PruneAgeMs) \div d

\* The clock advances by d ms (while it has made fewer than max such steps).
Tick(d, max) ==
  /\ Elapsed(d) < max
  /\ now' = now + d
  /\ UNCHANGED <<hookVars, sealVars, wsVars, callVars, storeVars, liveVars, recVars, anprVars, monitoredCameras,
                 events>>

\* ------------------------------------------------------------ recordings
\* records/<cameraId>/<date>/recording_<ISO timestamp>.mp4
recordingPath(c, t) == <<c, t>>

\* MemStorage.createRecording as called by startRecording.
createRecording(c, t) ==
  [present |-> TRUE, cameraId |-> c, startTime |-> t, endTime |-> Null,
   path |-> recordingPath(c, t), durationSec |-> Null, sizeBytes |-> Null]

OpenRows(c) == {r \in 1..Len(recRows) :
                  recRows[r].present /\ recRows[r].cameraId = c /\ recRows[r].endTime = Null}

\* stopRecording: Math.floor((endTime - startTime) / 1000).
durationSecRounded(endTime, startTime) == (2 * (endTime - startTime) + MsPerSec) \div (2 * MsPerSec)
durationSec(endTime, startTime) == (endTime - startTime) \div MsPerSec

\* fs.stat(recording.path).size, 0 when stat throws.
statSize(path) == IF path \in files THEN 1 ELSE 0

\* startRecording: the 'already recording' test on the manager's map.
alreadyRecording(c) == recordings[c] # NoRec

\* stopRecording: this.recordings.delete(cameraId).
forgetRecordingKeep(rs, c) == rs
forgetRecording(rs, c) == [rs EXCEPT ![c] = NoRec]

\* POST /api/cameras/:id/start-record up to the await of fs.mkdir in
\* startRecording: getCamera (404), the already-recording test (throws, 500),
\* now = new Date().
StartRecordBegin(c) ==
  /\ HasFree(1)
  /\ calls' = calls + 1
  /\ IF ~Exists(c)
     THEN /\ response' = Respond("404 Camera not found", c, 0)
          /\ UNCHANGED h
     ELSE IF alreadyRecording(c)
     THEN /\ response' = Respond("500 Failed to start recording", c, 0)
          /\ UNCHANGED h
     ELSE /\ h' = [h EXCEPT ![FreeSlot] = [Free EXCEPT !.kind = "startRecord", !.cam = c,
                                                       !.pc = "mkdir", !.t = now]]
          /\ UNCHANGED response
  /\ UNCHANGED <<hookVars, sealVars, wsVars, clockVars, storeVars, liveVars, recVars, anprVars, monitoredCameras, events>>

\* startRecording from the completion of fs.mkdir: createRecording, spawn,
\* track; the route then broadcasts recording-started and answers.
StartRecordResume(i) ==
  /\ h[i].pc = "mkdir"
  /\ h[i].kind = "startRecord"
  /\ Len(recRows) < MaxRecs
  /\ LET c == h[i].cam
         id == Len(recRows) + 1
     IN
     /\ recRows' = Append(recRows, createRecording(c, h[i].t))
     /\ recProcs' = Append(recProcs, "running")
     /\ recordings' = [recordings EXCEPT ![c] = id]
     /\ events' = Append(events, Ev("recording-started", c, id))
     /\ h' = Done(h, i)
     /\ response' = Respond("200 recording", c, id)
  /\ UNCHANGED <<hookVars, sealVars, wsVars, clockVars, calls, cameras, usedIds, anprRows, files, frames, liveVars, anprVars,
                 monitoredCameras>>

\* POST /api/cameras/:id/stop-record up to the await of fs.stat in
\* stopRecording: nothing tracked (null, 404); else kill, forget, getRecording
\* (no row: undefined, 404), endTime = new Date(), durationSec.
StopRecordBegin(c) ==
  /\ HasFree(1)
  /\ calls' = calls + 1
  /\ LET id == recordings[c] IN
     IF id = NoRec
     THEN /\ response' = Respond("404 No active recording found", c, 0)
          /\ UNCHANGED <<h, recVars>>
     ELSE /\ recProcs' = [recProcs EXCEPT ![id] = IF @ = "running" THEN "killed" ELSE @]
          /\ recordings' = forgetRecording(recordings, c)
          /\ IF recRows[id].present
             THEN /\ h' = [h EXCEPT ![FreeSlot] = [Free EXCEPT !.kind = "stopRecord", !.cam = c,
                                                               !.pc = "stat", !.rec = id,
                                                               !.t = now]]
                  /\ UNCHANGED response
             ELSE /\ response' = Respond("404 No active recording found", c, 0)
                  /\ UNCHANGED h
  /\ UNCHANGED <<hookVars, sealVars, wsVars, clockVars, storeVars, liveVars, anprVars, monitoredCameras, events>>

\* stopRecording from the completion of fs.stat: updateRecording (undefined
\* when the row is gone, 404); the route broadcasts recording-stopped.
StopRecordResume(i) ==
  /\ h[i].pc = "stat"
  /\ h[i].kind = "stopRecord"
  /\ LET id == h[i].rec IN
     IF recRows[id].present
     THEN /\ recRows' = [recRows EXCEPT ![id].endTime = h[i].t,
                                        ![id].durationSec = durationSec(h[i].t, recRows[id].startTime),
                                        ![id].sizeBytes = statSize(recRows[id].path)]
          /\ events' = Append(events, Ev("recording-stopped", h[i].cam, id))
          /\ response' = Respond("200 recording", h[i].cam, id)
     ELSE /\ response' = Respond("404 No active recording found", h[i].cam, 0)
          /\ UNCHANGED <<recRows, events>>
  /\ h' = Done(h, i)
  /\ UNCHANGED <<hookVars, sealVars, wsVars, clockVars, calls, cameras, usedIds, anprRows, files, frames, liveVars, recVars,
                 anprVars, monitoredCameras>>

\* The 'exit' and 'error' handlers of a recording child (startRecording):
\* this.recordings.delete(cameraId), whichever recording is tracked there.
RecChildExit(id) ==
  /\ id \in 1..Len(recProcs)
  /\ recProcs[id] \in {"running", "killed"}
  /\ recProcs' = [recProcs EXCEPT ![id] = "exited"]
  /\ recordings' = [recordings EXCEPT ![recRows[id].cameraId] = NoRec]
  /\ UNCHANGED <<hookVars, sealVars, wsVars, clockVars, callVars, storeVars, liveVars, anprVars, monitoredCameras, events>>

\* A running recording child creates its output file.
RecChildWrite(id) ==
  /\ id \in 1..Len(recProcs)
  /\ recProcs[id] = "running"
  /\ recRows[id].path \notin files
  /\ files' = files \cup {recRows[id].path}
  /\ UNCHANGED <<hookVars, sealVars, wsVars, clockVars, callVars, cameras, usedIds, recRows, anprRows, frames, liveVars,
                 recVars, anprVars, monitoredCameras, events>>

\* ------------------------------------------------------------- retention
\* MemStorage.getCameras: the cameras, ordered by name (the id stands for it).
RECURSIVE SortedCams(_)
SortedCams(S) == IF S = {} THEN <<>>
                 ELSE LET c == CHOOSE x \in S : \A y \in S : (x = "c1") \/ (y # "c1")
                      IN <<c>> \o SortedCams(S \ {c})
getCameras == SortedCams({c \in CamIds : Exists(c)})

\* cutoffDate: now minus (camera.recording.retainDays || 7) days.
cutoffDate(c) == now - (IF cameras[c].retainDays # 0 THEN cameras[c].retainDays ELSE 7) * DayMs

\* MemStorage.getRecordings({cameraId, to}): the camera's rows with
\* startTime <= to, newest first (ties in insertion order).
RECURSIVE SortDesc(_)
SortDesc(S) == IF S = {} THEN <<>>
               ELSE LET r == CHOOSE x \in S : \A y \in S :
                               \/ recRows[x].startTime > recRows[y].startTime
                               \/ (recRows[x].startTime = recRows[y].startTime /\ x <= y)
                    IN <<r>> \o SortDesc(S \ {r})
getRecordings(c, to) ==
  SortDesc({r \in 1..Len(recRows) : /\ recRows[r].present
                                    /\ recRows[r].cameraId = c
                                    /\ recRows[r].startTime <= to})

\* cleanupOldRecordings between two awaits of fs.unlink: walk the cameras
\* until one has old recordings; [queue, cams] is what is left to visit.
RECURSIVE NextSweep(_)
NextSweep(cams) ==
  IF cams = <<>> THEN [queue |-> <<>>, cams |-> <<>>]
  ELSE LET old == getRecordings(Head(cams), cutoffDate(Head(cams)))
       IN IF old # <<>> THEN [queue |-> old, cams |-> Tail(cams)]
          ELSE NextSweep(Tail(cams))

\* The daily interval fires: cleanupOldRecordings up to its first fs.unlink.
\* The handler keeps the time the sweep began (the clock its first cutoff read).
SweepBegin ==
  /\ HasFree(1)
  /\ \A i \in Handlers : h[i].kind # "sweep"
  /\ calls' = calls + 1
  /\ LET nx == NextSweep(getCameras)
     IN h' = IF nx.queue = <<>> THEN h
             ELSE [h EXCEPT ![FreeSlot] = [Free EXCEPT !.kind = "sweep", !.pc = "unlink",
                                                      !.t = now,
                                                      !.queue = nx.queue, !.cams = nx.cams]]
  /\ UNCHANGED <<hookVars, sealVars, wsVars, clockVars, response, storeVars, liveVars, recVars, anprVars,
                 monitoredCameras, events>>

\* cleanupOldRecordings from the completion of one fs.unlink: on success
\* deleteRecording, on failure (no such file) the catch logs; then on to the
\* next recording, or the next camera.
SweepStep(i) ==
  /\ h[i].pc = "unlink"
  /\ h[i].kind = "sweep"
  /\ LET id == Head(h[i].queue)
         ok == recRows[id].path \in files
         rest == Tail(h[i].queue)
         nx == IF rest # <<>> THEN [queue |-> rest, cams |-> h[i].cams]
               ELSE NextSweep(h[i].cams)
     IN
     /\ files' = IF ok THEN files \ {recRows[id].path} ELSE files
     /\ recRows' = IF ok THEN [recRows EXCEPT ![id].present = FALSE] ELSE recRows
     /\ h' = IF nx.queue = <<>> THEN Done(h, i)
             ELSE [h EXCEPT ![i].queue = nx.queue, ![i].cams = nx.cams]
  /\ UNCHANGED <<hookVars, sealVars, wsVars, clockVars, calls, response, cameras, usedIds, anprRows, frames, liveVars,
                 recVars, anprVars, monitoredCameras, events>>

\* ------------------------------------------------------------ AnprWorker
\* temp/anpr/frame_<cameraId>_<epoch ms>.jpg
framePath(c, t) == <<c, t>>

\* anpr.confidenceThreshold || 0.8
thresholdOrDefault(thr) == IF thr = 0 THEN DefaultThreshold ELSE thr

\* processFrame's acceptance test on one detection.
accepted(plateText, conf, thr) == plateText # NoPlate /\ conf >= thr

\* `${plateText}_${Math.floor(Date.now() / 5000)}`
cacheKey(plateText, t) == <<plateText, t \div DedupBucketMs>>

\* !cache?.has(cacheKey): no entry set for the camera reads as "not seen".
seen(cache, key) == cache # NoCache /\ key \in cache
\* The key test without the insertion.
cacheAddNothing(cache, key) == cache
\* cache?.add(cacheKey)
cacheAdd(cache, key) == IF cache = NoCache THEN cache ELSE cache \cup {key}

DetLists == {<<>>} \cup {<<x>> : x \in Confs}
             \cup (IF MaxDets >= 2 THEN {<<x, y>> : x \in Confs, y \in Confs} ELSE {})

\* processFrame (a tick of the interval, or processCamera for a one-shot) up
\* to the await of fs.mkdir in extractFrame: getCamera, the enabled test,
\* the ANPR policy object the rest of the tick keeps using.
ProcessFrameBegin(c) ==
  /\ calls < MaxReads
  /\ calls' = calls + 1
  /\ h' = IF Exists(c) /\ cameras[c].anprEnabled
          THEN [h EXCEPT ![FreeSlot] = [Free EXCEPT !.kind = "processFrame", !.cam = c,
                                                   !.pc = "extract",
                                                   !.thr = cameras[c].confidenceThreshold]]
          ELSE h
  /\ UNCHANGED <<hookVars, sealVars, wsVars, clockVars, response, storeVars, liveVars, recVars, anprVars, monitoredCameras,
                 events>>

\* extractFrame from fs.mkdir to the exit of its ffmpeg: the frame file, or
\* null (processFrame returns).
ProcessFrameExtract(i, ok) ==
  /\ h[i].pc = "extract"
  /\ h[i].kind = "processFrame"
  /\ IF ok
     THEN /\ frames' = frames \cup {framePath(h[i].cam, now)}
          /\ h' = [h EXCEPT ![i].pc = "detect", ![i].t = now]
     ELSE /\ h' = Done(h, i)
          /\ UNCHANGED frames
  /\ UNCHANGED <<hookVars, sealVars, wsVars, clockVars, calls, response, cameras, usedIds, recRows, anprRows, files,
                 liveVars, recVars, anprVars, monitoredCameras, events>>

\* detectPlates returns its candidate regions (their confidences).
ProcessFrameDetect(i, dets) ==
  /\ h[i].pc = "detect"
  /\ h[i].kind = "processFrame"
  /\ h' = [h EXCEPT ![i].pc = IF dets = <<>> THEN "unlink" ELSE "ocr", ![i].queue = dets]
  /\ UNCHANGED <<hookVars, sealVars, wsVars, clockVars, calls, response, storeVars, liveVars, recVars, anprVars,
                 monitoredCameras, events>>

\* detectPlates when yoloService.detectPlates rejects: the catch returns one
\* made-up region (confidence 0.85 to 1) with probability 0.3, else none.
FallbackDets == {<<>>, <<90>>}
ProcessFrameDetectFails(i, pick) ==
  /\ h[i].pc = "detect"
  /\ h[i].kind = "processFrame"
  /\ h' = [h EXCEPT ![i].pc = IF pick = <<>> THEN "unlink" ELSE "ocr", ![i].queue = pick,
                    ![i].fallback = TRUE]
  /\ UNCHANGED <<hookVars, sealVars, wsVars, clockVars, calls, response, storeVars, liveVars, recVars, anprVars,
                 monitoredCameras, events>>

\* runOCR returns for the next region; the acceptance test, the dedup cache,
\* createAnprEvent and the emit of 'anpr-event' follow in the same turn.
ProcessFrameOcr(i, plateText) ==
  /\ h[i].pc = "ocr"
  /\ h[i].kind = "processFrame"
  /\ LET c == h[i].cam
         conf == Head(h[i].queue)
         key == cacheKey(plateText, now)
         store == /\ accepted(plateText, conf, thresholdOrDefault(h[i].thr))
                  /\ ~seen(processingCache[c], key)
     IN
     /\ processingCache' = IF store
                           THEN [processingCache EXCEPT ![c] = cacheAdd(@, key)]
                           ELSE processingCache
     /\ anprRows' = IF store
                    THEN Append(anprRows, [cameraId |-> c, timestamp |-> now, plate |-> plateText,
                                           confidence |-> conf,
                                           snapshotPath |-> framePath(c, h[i].t)])
                    ELSE anprRows
     /\ events' = IF store THEN Append(events, Ev("anpr-event", c, Len(anprRows) + 1))
                  ELSE events
     /\ h' = [h EXCEPT ![i].queue = Tail(@),
                       ![i].pc = IF Tail(h[i].queue) = <<>> THEN "unlink" ELSE "ocr",
                       ![i].plateText = plateText, ![i].conf = conf]
  /\ UNCHANGED <<hookVars, sealVars, wsVars, clockVars, calls, response, cameras, usedIds, recRows, files, frames, liveVars,
                 recVars, monitoredCameras>>

\* The characters of the texts the model uses.
Chars(s) ==
  CASE s = "ABC1234" -> <<"A", "B", "C", "1", "2", "3", "4">>
    [] s = "XYZ7890" -> <<"X", "Y", "Z", "7", "8", "9", "0">>
    [] s = "ABC-1234" -> <<"A", "B", "C", "-", "1", "2", "3", "4">>
    [] s = "123-ABC" -> <<"1", "2", "3", "-", "A", "B", "C">>
    [] s = "abc 1234" -> <<"a", "b", "c", " ", "1", "2", "3", "4">>
    [] s = "ab" -> <<"a", "b">>
    [] OTHER -> <<>>

\* text.upper()
upperChar(ch) == CASE ch = "a" -> "A" [] ch = "b" -> "B" [] ch = "c" -> "C" [] OTHER -> ch
AlphaNum == {"A", "B", "C", "X", "Y", "Z", "0", "1", "2", "3", "4", "7", "8", "9"}

\* re.sub(r'[^A-Za-z0-9]', '', text.upper())
cleanChars(chars) ==
  SelectSeq([k \in 1..Len(chars) |-> upperChar(chars[k])], LAMBDA ch : ch \in AlphaNum)

\* OCRService.extractText when the Python process exits with code 0: the
\* cleaned text if it has at least 3 characters, else NO_TEXT_DETECTED (null).
extractText(raw) ==
  LET cleaned == cleanChars(Chars(raw))
  IN IF Len(cleaned) >= 3
     THEN CHOOSE s \in Plates : Chars(s) = cleaned
     ELSE NoPlate

\* runOCR: extractText's result, or when extractText rejects (the Python
\* process fails) an entry of plateFormats, or null.
runOCR(raw, fails, pick) == IF fails THEN pick ELSE extractText(raw)

\* runOCR returns for the next region, the text extractor having read raw or
\* failed; then as ProcessFrameOcr.
ProcessFrameRunOcr(i, raw, fails, pick) == ProcessFrameOcr(i, runOCR(raw, fails, pick))

\* processFrame returning without its finally block (the frame stays).
ProcessFrameEndKeep(i) ==
  /\ h[i].pc = "unlink"
  /\ h[i].kind = "processFrame"
  /\ h' = Done(h, i)
  /\ UNCHANGED <<hookVars, sealVars, wsVars, clockVars, calls, response, storeVars, liveVars, recVars,
                 anprVars, monitoredCameras, events>>

\* The finally block: fs.unlink(framePath), then processFrame returns.
ProcessFrameEnd(i) ==
  /\ h[i].pc = "unlink"
  /\ h[i].kind = "processFrame"
  /\ frames' = frames \ {framePath(h[i].cam, h[i].t)}
  /\ h' = Done(h, i)
  /\ UNCHANGED <<hookVars, sealVars, wsVars, clockVars, calls, response, cameras, usedIds, recRows, anprRows, files,
                 liveVars, recVars, anprVars, monitoredCameras, events>>

\* stopProcessing: the worker's interval is cleared and the camera's dedup
\* set deleted.
stopProcessing(cache, c) == [cache EXCEPT ![c] = NoCache]

\* startProcessing for a camera with ANPR enabled: stopProcessing, then a
\* new interval and an empty dedup set.
StartProcessing(c) ==
  /\ Exists(c)
  /\ cameras[c].anprEnabled
  /\ processingCache' = [stopProcessing(processingCache, c) EXCEPT ![c] = {}]
  /\ UNCHANGED <<hookVars, sealVars, wsVars, clockVars, callVars, storeVars, liveVars, recVars,
                 monitoredCameras, events>>

StopProcessing(c) ==
  /\ processingCache[c] # NoCache
  /\ processingCache' = stopProcessing(processingCache, c)
  /\ UNCHANGED <<hookVars, sealVars, wsVars, clockVars, callVars, storeVars, liveVars, recVars,
                 monitoredCameras, events>>

\* The one-minute interval: cleanupCache keeps the keys younger than 30 s.
CleanupCache ==
  /\ processingCache' =
       [c \in CamIds |->
          IF processingCache[c] = NoCache THEN NoCache
          ELSE {key \in processingCache[c] : now - key[2] * DedupBucketMs < PruneAgeMs}]
  /\ processingCache' # processingCache
  /\ UNCHANGED <<hookVars, sealVars, wsVars, clockVars, callVars, storeVars, liveVars, recVars, monitoredCameras, events>>

\* ------------------------------------------------------------ WebSocket
\* wss.on('connection'): the handler logs and registers a close handler; it
\* does not add the socket to wsClients.
WsConnect(ws) ==
  /\ ws \notin wsOpen
  /\ wsOpen' = wsOpen \cup {ws}
  /\ UNCHANGED <<hookVars, sealVars, wsClients, clockVars, callVars, storeVars, liveVars, recVars, anprVars,
                 monitoredCameras, events>>

\* ws.on('close'): the handler logs.
WsClose(ws) ==
  /\ ws \in wsOpen
  /\ wsOpen' = wsOpen \ {ws}
  /\ UNCHANGED <<hookVars, sealVars, wsClients, clockVars, callVars, storeVars, liveVars, recVars, anprVars,
                 monitoredCameras, events>>

\* ------------------------------------------------------ specifications
InitEmpty ==
  /\ now = 0
  /\ calls = 0
  /\ response = NoResponse
  /\ cameras = [c \in CamIds |-> NoRow]
  /\ usedIds = {}
  /\ recRows = <<>>
  /\ anprRows = <<>>
  /\ files = {}
  /\ frames = {}
  /\ streams = [c \in CamIds |-> NoProc]
  /\ procs = <<>>
  /\ recordings = [c \in CamIds |-> NoRec]
  /\ recProcs = <<>>
  /\ timers = <<>>
  /\ monitoredCameras = <<>>
  /\ processingCache = [c \in CamIds |-> NoCache]
  /\ events = <<>>
  /\ wsOpen = {}
  /\ wsClients = {}
  /\ SealIdle
  /\ HookIdle
  /\ h = [i \in Handlers |-> Free]

NextLive ==
  \/ \E url \in Urls, hls \in BOOLEAN : PostCamera(url, hls)
  \/ \E i \in Handlers : StartHLSResume(i)
  \/ \E c \in CamIds, url \in Urls : PutCameraUrl(c, url)
  \/ \E c \in CamIds : DeleteCamera(c)
  \/ HealthTick
  \/ \E p \in 1..MaxProcs, code \in {0, 1} : LiveChildExit(p, code)
  \/ \E k \in 1..MaxHandlers : TimerFire(k)
  \/ Tick(RestartDelayMs, MaxDelays)

SpecLive == InitEmpty /\ [][NextLive]_vars

\* One camera (retention one day) has been created and its POST answered;
\* "c2" is the id of no camera.
InitRec ==
  /\ now = 0
  /\ calls = 0
  /\ response = NoResponse
  /\ cameras = [c \in CamIds |-> IF c = "c1" THEN createCamera(UrlLan, TRUE, 1, DefaultThreshold)
                                 ELSE NoRow]
  /\ usedIds = {"c1"}
  /\ recRows = <<>>
  /\ anprRows = <<>>
  /\ files = {}
  /\ frames = {}
  /\ streams = [c \in CamIds |-> NoProc]
  /\ procs = <<>>
  /\ recordings = [c \in CamIds |-> NoRec]
  /\ recProcs = <<>>
  /\ timers = <<>>
  /\ monitoredCameras = <<"c1">>
  /\ processingCache = [c \in CamIds |-> NoCache]
  /\ events = <<>>
  /\ wsOpen = {}
  /\ wsClients = {}
  /\ SealIdle
  /\ HookIdle
  /\ h = [i \in Handlers |-> Free]

NextRec ==
  \/ \E c \in CamIds : StartRecordBegin(c)
  \/ \E i \in Handlers : StartRecordResume(i)
  \/ \E c \in CamIds : StopRecordBegin(c)
  \/ \E i \in Handlers : StopRecordResume(i)
  \/ \E id \in 1..MaxRecs : RecChildExit(id)
  \/ \E id \in 1..MaxRecs : RecChildWrite(id)
  \/ SweepBegin
  \/ \E i \in Handlers : SweepStep(i)
  \/ \E c \in CamIds : DeleteCamera(c)
  \/ Tick(StepMs, MaxSteps)
  \/ Tick(DayMs, MaxDays)

SpecRec == InitRec /\ [][NextRec]_vars

\* One camera with ANPR enabled has been created and an ANPR worker started
\* for it (startProcessing: an empty dedup set); "c2" is the id of no camera.
InitAnpr ==
  /\ now = 0
  /\ calls = 0
  /\ response = NoResponse
  /\ cameras = [c \in CamIds |-> IF c = "c1"
                                 THEN createCamera(UrlLan, TRUE, DefaultRetainDays, DefaultThreshold)
                                 ELSE NoRow]
  /\ usedIds = {"c1"}
  /\ recRows = <<>>
  /\ anprRows = <<>>
  /\ files = {}
  /\ frames = {}
  /\ streams = [c \in CamIds |-> NoProc]
  /\ procs = <<>>
  /\ recordings = [c \in CamIds |-> NoRec]
  /\ recProcs = <<>>
  /\ timers = <<>>
  /\ monitoredCameras = <<"c1">>
  /\ processingCache = [c \in CamIds |-> IF c = "c1" THEN {} ELSE NoCache]
  /\ events = <<>>
  /\ wsOpen = {}
  /\ wsClients = {}
  /\ SealIdle
  /\ HookIdle
  /\ h = [i \in Handlers |-> Free]

NextAnpr ==
  \/ \E c \in CamIds : ProcessFrameBegin(c)
  \/ \E i \in Handlers, ok \in BOOLEAN : ProcessFrameExtract(i, ok)
  \/ \E i \in Handlers, dets \in DetLists : ProcessFrameDetect(i, dets)
  \/ \E i \in Handlers, plateText \in Plates \cup {NoPlate} : ProcessFrameOcr(i, plateText)
  \/ \E i \in Handlers : ProcessFrameEnd(i)
  \/ \E c \in CamIds, thr \in Thresholds : PutCameraAnpr(c, thr)
  \/ \E c \in CamIds : DeleteCamera(c)
  \/ CleanupCache
  \/ Tick(AnprStepMs, MaxAnprSteps)
  \/ Tick(PruneAgeMs, 1)

SpecAnpr == InitAnpr /\ [][NextAnpr]_vars

\* One camera exists, as in InitRec; the configuration, recording and delete
\* routes are served while clients connect to /ws and leave.
NextOps ==
  \/ \E ws \in WsIds : WsConnect(ws)
  \/ \E ws \in WsIds : WsClose(ws)
  \/ \E c \in CamIds, url \in Urls : PutCameraUrl(c, url)
  \/ \E i \in Handlers : StartHLSResume(i)
  \/ \E c \in CamIds : StartRecordBegin(c)
  \/ \E i \in Handlers : StartRecordResume(i)
  \/ \E c \in CamIds : StopRecordBegin(c)
  \/ \E i \in Handlers : StopRecordResume(i)
  \/ \E c \in CamIds : DeleteCamera(c)

SpecOps == InitRec /\ [][NextOps]_vars

\* The ANPR tick with the text extractor's own outcomes.
NextOcr ==
  \/ \E c \in CamIds : ProcessFrameBegin(c)
  \/ \E i \in Handlers, ok \in BOOLEAN : ProcessFrameExtract(i, ok)
  \/ \E i \in Handlers, dets \in DetLists : ProcessFrameDetect(i, dets)
  \/ \E i \in Handlers, pick \in FallbackDets : ProcessFrameDetectFails(i, pick)
  \/ \E i \in Handlers, raw \in RawTexts, fails \in BOOLEAN, pick \in plateFormats \cup {NoPlate} :
       ProcessFrameRunOcr(i, raw, fails, pick)
  \/ \E i \in Handlers : ProcessFrameEnd(i)
  \/ Tick(AnprStepMs, MaxAnprSteps)

SpecOcr == InitAnpr /\ [][NextOcr]_vars

\* Cameras are created with a live pipeline and left alone: every segmenter
\* after a camera's first is one the crash-restart timer started.
NextRestart ==
  \/ \E url \in Urls : PostCamera(url, TRUE)
  \/ \E i \in Handlers : StartHLSResume(i)
  \/ \E p \in 1..MaxProcs, code \in {0, 1} : LiveChildExit(p, code)
  \/ \E k \in 1..MaxHandlers : TimerFire(k)
  \/ Tick(RestartDelayMs, MaxDelays)

SpecRestart == InitEmpty /\ [][NextRestart]_vars

\* Camera creation with the outcomes of the fs.mkdir inside startHLSStream.
NextPost ==
  \/ \E url \in Urls, hls \in BOOLEAN : PostCamera(url, hls)
  \/ \E i \in Handlers : StartHLSResume(i)
  \/ \E i \in Handlers : StartHLSMkdirFails(i)
  \/ \E p \in 1..MaxProcs, code \in {0, 1} : LiveChildExit(p, code)
  \/ \E k \in 1..MaxHandlers : TimerFire(k)
  \/ Tick(RestartDelayMs, MaxDelays)

SpecPost == InitEmpty /\ [][NextPost]_vars

\* One camera exists and no ANPR worker has been started; one-shot triggers
\* (POST /api/anpr/process -> processCamera) arrive, and workers may be
\* started and stopped.
NextOneShot ==
  \/ \E c \in CamIds : ProcessFrameBegin(c)
  \/ \E i \in Handlers, ok \in BOOLEAN : ProcessFrameExtract(i, ok)
  \/ \E i \in Handlers, dets \in DetLists : ProcessFrameDetect(i, dets)
  \/ \E i \in Handlers, plateText \in Plates \cup {NoPlate} : ProcessFrameOcr(i, plateText)
  \/ \E i \in Handlers : ProcessFrameEnd(i)
  \/ \E c \in CamIds : StartProcessing(c)
  \/ \E c \in CamIds : StopProcessing(c)
  \/ Tick(AnprStepMs, MaxAnprSteps)

SpecOneShot == InitRec /\ [][NextOneShot]_vars

\* The prober, the recording commands and the recording policy of a camera.
NextWatch ==
  \/ \E c \in CamIds, mode \in Modes : PutCameraRecording(c, mode, 1)
  \/ HealthTick
  \/ \E i \in Handlers : StartHLSResume(i)
  \/ \E c \in CamIds : StartRecordBegin(c)
  \/ \E i \in Handlers : StartRecordResume(i)
  \/ \E c \in CamIds : StopRecordBegin(c)
  \/ \E i \in Handlers : StopRecordResume(i)
  \/ \E id \in 1..MaxRecs : RecChildExit(id)

SpecWatch == InitRec /\ [][NextWatch]_vars

\* ------------------------------------------- encrypt / decrypt as calls
\* Everything of the server the credential functions do not touch.
serverVars == <<wsVars, clockVars, callVars, storeVars, liveVars, recVars, anprVars,
                monitoredCameras, events>>

\* A caller encrypts credential text; randomBytes returns iv.
Encrypt(text, iv) ==
  /\ issued = NoString
  /\ plaintext' = text
  /\ issued' = encryptCredentials(text, iv)
  /\ sealed' = issued'
  /\ opened' = NotOpened
  /\ UNCHANGED <<hookVars, serverVars>>

\* One character of one of the three fields of the held string is changed.
Tamper(k, ch) ==
  /\ sealed # NoString
  /\ sealed = issued
  /\ k \in 1..Len(sealed)
  /\ sealed[k] # ":"
  /\ sealed[k] # ch
  /\ sealed' = [sealed EXCEPT ![k] = ch]
  /\ opened' = NotOpened
  /\ UNCHANGED <<plaintext, issued, hookVars, serverVars>>

\* A caller decrypts the held string.
Decrypt ==
  /\ sealed # NoString
  /\ opened = NotOpened
  /\ opened' = decryptCredentials(sealed)
  /\ UNCHANGED <<plaintext, issued, sealed, hookVars, serverVars>>

\* A caller encrypts what decryptCredentials returned.
Reseal(iv) ==
  /\ opened.st = "ok"
  /\ plaintext' = opened.text
  /\ issued' = encryptCredentials(opened.text, iv)
  /\ sealed' = issued'
  /\ opened' = NotOpened
  /\ UNCHANGED <<hookVars, serverVars>>

NextSeal ==
  \/ \E text \in Plaintexts, iv \in Ivs : Encrypt(text, iv)
  \/ \E k \in 1..MaxStringLen, ch \in TamperChars : Tamper(k, ch)
  \/ Decrypt
  \/ \E iv \in Ivs : Reseal(iv)

SpecSeal == InitEmpty /\ [][NextSeal]_vars

\* ------------------------------------------------ client WebSocket hook
ReconnectDelayMs == 3000
MaxSockets == 3
HookStepMs == 1500
MaxHookSteps == 6

\* connect: new WebSocket(wsUrl) goes into ws.current (CONNECTING).
connect(ss) == Append(ss, "connecting")

\* The component mounts: the effect runs and calls connect.
HookMount ==
  /\ effect = "none"
  /\ effect' = "active"
  /\ sockets' = connect(sockets)
  /\ wsCurrent' = Len(sockets')
  /\ UNCHANGED <<reconnectTimer, clientNow, sealVars, serverVars>>

\* The open event of socket s (onopen).
SocketOpen(s) ==
  /\ s <= Len(sockets)
  /\ sockets[s] = "connecting"
  /\ sockets' = [sockets EXCEPT ![s] = "open"]
  /\ UNCHANGED <<effect, wsCurrent, reconnectTimer, clientNow, sealVars, serverVars>>

\* The close event of socket s (the connection failed or ended, or close()
\* completed): onclose arms the reconnect timeout, whatever the effect's state.
SocketClosed(s) ==
  /\ s <= Len(sockets)
  /\ sockets[s] \in {"connecting", "open", "closing"}
  /\ sockets' = [sockets EXCEPT ![s] = "closed"]
  /\ reconnectTimer' = clientNow + ReconnectDelayMs
  /\ UNCHANGED <<effect, wsCurrent, clientNow, sealVars, serverVars>>

\* The reconnect timeout fires: connect.
ReconnectFire ==
  /\ reconnectTimer # Null
  /\ clientNow >= reconnectTimer
  /\ Len(sockets) < MaxSockets
  /\ sockets' = connect(sockets)
  /\ wsCurrent' = Len(sockets')
  /\ reconnectTimer' = Null
  /\ UNCHANGED <<effect, clientNow, sealVars, serverVars>>

\* The effect's cleanup: clearTimeout(reconnectTimer), then ws.current.close()
\* (the socket goes to CLOSING; its close event comes later).
HookUnmount ==
  /\ effect = "active"
  /\ effect' = "cleaned"
  /\ reconnectTimer' = Null
  /\ sockets' = IF wsCurrent # 0 /\ sockets[wsCurrent] \in {"connecting", "open"}
                THEN [sockets EXCEPT ![wsCurrent] = "closing"]
                ELSE sockets
  /\ UNCHANGED <<wsCurrent, clientNow, sealVars, serverVars>>

\* The browser's clock advances; a due timeout fires before it goes on.
HookTick ==
  /\ clientNow < MaxHookSteps * HookStepMs
  /\ reconnectTimer = Null \/ clientNow < reconnectTimer
  /\ clientNow' = clientNow + HookStepMs
  /\ UNCHANGED <<effect, sockets, wsCurrent, reconnectTimer, sealVars, serverVars>>

NextHook ==
  \/ HookMount
  \/ \E s \in 1..MaxSockets : SocketOpen(s)
  \/ \E s \in 1..MaxSockets : SocketClosed(s)
  \/ ReconnectFire
  \/ HookUnmount
  \/ HookTick

SpecHook == InitEmpty /\ [][NextHook]_vars

\* The camera endpoints, with credentials in the bodies.
NextCreds ==
  \/ \E url \in Urls, hls \in BOOLEAN, user \in Usernames, pw \in Passwords :
       PostCameraWith(url, hls, user, pw)
  \/ \E i \in Handlers : StartHLSResume(i)
  \/ \E c \in CamIds, user \in Usernames, pw \in Passwords : PutCameraCreds(c, user, pw)
  \/ GetCameras
  \/ \E c \in CamIds : GetCamera(c)
  \/ \E c \in CamIds : DeleteCamera(c)

SpecCreds == InitEmpty /\ [][NextCreds]_vars

\* --------------------------------------------------------------- claims
\* C1 (as claimed): for every camera at most one live-segmenter child
\* process is running, in every reachable state.
C1_AtMostOneLiveSegmenter == \A c \in CamIds : Cardinality(Running(c)) <= 1

\* C2 (as claimed): for every camera at most one Recording row has
\* end_time = null, in every reachable state.
C2_AtMostOneOpenRecording == \A c \in CamIds : Cardinality(OpenRows(c)) <= 1

\* C4 (as claimed): no step deletes the row or the file of a Recording whose
\* end_time is null.
C4_RetentionSparesOpenRecordings ==
  [][\A r \in 1..Len(recRows) :
       (recRows[r].present /\ recRows[r].endTime = Null)
         => /\ recRows'[r].present
            /\ (recRows[r].path \in files => recRows[r].path \in files')]_vars

\* C6: every finalized Recording has end_time >= start_time and duration_sec
\* the whole seconds between them, rounded down; a Recording that is not
\* finalized has neither duration nor size.
C6_FinalizedRecording ==
  \A r \in 1..Len(recRows) :
    LET row == recRows[r] IN
    IF row.endTime # Null
    THEN /\ row.endTime >= row.startTime
         /\ row.durationSec # Null
         /\ row.durationSec * MsPerSec <= row.endTime - row.startTime
         /\ row.endTime - row.startTime < (row.durationSec + 1) * MsPerSec
         /\ row.sizeBytes # Null
    ELSE row.durationSec = Null /\ row.sizeBytes = Null

\* A recording was stopped after a time that is no whole number of seconds.
C6_Witness ==
  \E r \in 1..Len(recRows) :
    /\ recRows[r].endTime # Null
    /\ recRows[r].durationSec >= 1
    /\ (recRows[r].endTime - recRows[r].startTime) % MsPerSec # 0

Published(topic, id) == {k \in 1..Len(events) : events[k].topic = topic /\ events[k].id = id}

\* C7: every recording that a start-record created has exactly one
\* recording-started event; it has at most one recording-stopped event, exactly
\* one once a stop-record has finalized it, and that event comes after its
\* recording-started.
C7_StartedThenStopped ==
  \A r \in 1..Len(recRows) :
    /\ Cardinality(Published("recording-started", r)) = 1
    /\ Cardinality(Published("recording-stopped", r)) <= 1
    /\ recRows[r].endTime # Null => Cardinality(Published("recording-stopped", r)) = 1
    /\ \A k \in Published("recording-stopped", r) :
         /\ recRows[r].endTime # Null
         /\ events[k].cam = recRows[r].cameraId
         /\ \E j \in Published("recording-started", r) : j < k

\* A start-record and then a stop-record succeeded for one recording.
C7_Witness ==
  \E r \in 1..Len(recRows) :
    /\ recRows[r].endTime # Null
    /\ response = Respond("200 recording", recRows[r].cameraId, r)
    /\ Published("recording-stopped", r) # {}

\* A camera has an active recording: an open Recording row whose recording
\* child process is running.
ActiveRecording(c) == \E r \in OpenRows(c) : recProcs[r] = "running"

\* C8 (as claimed): a start-record that arrives while the camera has an active
\* recording is refused and changes nothing: no row, no process, no event.
C8_BeginWhileActiveRefused ==
  [][\A c \in CamIds :
       (Exists(c) /\ ActiveRecording(c) /\ StartRecordBegin(c))
         => /\ response' = Respond("500 Failed to start recording", c, 0)
            /\ UNCHANGED <<recRows, recProcs, recordings, events, h>>]_vars

\* C9 (as claimed): a stop-record on a camera with no active recording answers
\* NotRecording and changes no row and publishes nothing; on a camera with an
\* active recording it is not refused, and when it returns it answers with
\* the finalized recording and the camera has no active recording.
C9_EndRecording ==
  [][/\ \A c \in CamIds :
          (StopRecordBegin(c) /\ ~ActiveRecording(c))
            => /\ response'.res = "404 No active recording found"
               /\ UNCHANGED <<recRows, events>>
     /\ \A c \in CamIds :
          (StopRecordBegin(c) /\ ActiveRecording(c))
            => \E i \in Handlers : h'[i].kind = "stopRecord" /\ h'[i].cam = c
     /\ \A i \in Handlers :
          StopRecordResume(i)
            => /\ response' = Respond("200 recording", h[i].cam, h[i].rec)
               /\ recRows'[h[i].rec].endTime # Null
               /\ ~ActiveRecording(h[i].cam)']_vars


\* C3 (as claimed): once 'camera-deleted' has been published for a camera, no
\* 'camera-status' and no 'anpr-event' is published for that camera, even when
\* a health or ANPR tick for it was in flight at the delete.
C3_NothingAfterCameraDeleted ==
  \A j \in 1..Len(events), k \in 1..Len(events) :
    (j < k /\ events[j].topic = "camera-deleted" /\ events[k].cam = events[j].cam)
      => events[k].topic \notin {"camera-status", "anpr-event"}

\* C5 (as claimed): every ANPR event row has, at the moment it is created, a
\* confidence at or above the threshold then configured on its camera, even
\* when the policy was updated while the read was in flight.
C5_ConfidenceAtLeastThreshold ==
  [][\A k \in (Len(anprRows) + 1)..Len(anprRows') :
       Exists(anprRows'[k].cameraId)
         => anprRows'[k].confidence
              >= thresholdOrDefault(cameras[anprRows'[k].cameraId].confidenceThreshold)]_vars

\* C10 (as claimed): accepted reads of one plate on one camera whose
\* timestamps lie within 5 s of each other create one ANPR event, wherever
\* the timestamps fall relative to the 5 s bucket boundaries: no two rows of
\* a camera carry the same plate less than 5 s apart.
C10_OneEventPerPlateWithin5s ==
  \A j \in 1..Len(anprRows), k \in 1..Len(anprRows) :
    (/\ j < k
     /\ anprRows[j].cameraId = anprRows[k].cameraId
     /\ anprRows[j].plate = anprRows[k].plate)
      => anprRows[k].timestamp - anprRows[j].timestamp >= DedupBucketMs

\* The camera-status events published for camera c, in order.
StatusEvents(c) == SelectSeq(events, LAMBDA e : e.topic = "camera-status" /\ e.cam = c)

\* C11 (as claimed): a camera-status event is published for a camera only
\* when the status the prober derives differs from the one it derived on the
\* previous tick: two ticks that derive the same status publish at most one
\* event, so no two successive camera-status events of a camera carry the
\* same status.
C11_StatusOnlyOnChange ==
  \A c \in CamIds :
    \A k \in 1..(Len(StatusEvents(c)) - 1) :
      StatusEvents(c)[k].status # StatusEvents(c)[k + 1].status

\* Recording children of camera c that are still running.
RunningRecordings(c) == {r \in 1..Len(recRows) : recRows[r].cameraId = c /\ recProcs[r] = "running"}

\* C12 (as claimed): a camera row is removed only after the camera's recording
\* has been stopped and its Recording row finalized, and the live segmenter is
\* stopped with it: at the step that removes the row the camera has no tracked
\* or running recording and no open Recording row, and after it no live
\* segmenter is tracked.
C12_DeleteStopsRecordingFirst ==
  [][\A c \in CamIds :
       (Exists(c) /\ ~cameras'[c].present)
         => /\ recordings[c] = NoRec
            /\ RunningRecordings(c) = {}
            /\ OpenRows(c) = {}
            /\ streams'[c] = NoProc]_vars

\* C13 (as claimed): every stored Recording and every stored ANPR event refers
\* to an existing camera; a deleted camera leaves no such row behind.
C13_NoRowsOfDeletedCamera ==
  /\ \A r \in 1..Len(recRows) : recRows[r].present => Exists(recRows[r].cameraId)
  /\ \A k \in 1..Len(anprRows) : Exists(anprRows[k].cameraId)

\* C14 (as claimed): an update whose content equals the camera's current
\* configuration is a no-op: the live segmenter is neither stopped nor
\* restarted (no process is signalled, untracked or about to be spawned) and
\* no camera-updated event is published.
C14_IdenticalUpdateIsNoOp ==
  [][\A c \in CamIds, url \in Urls :
       (PutCameraUrl(c, url) /\ url = cameras[c].rtspUrl)
         => UNCHANGED <<cameras, procs, streams, events, h>>]_vars

\* C15 (as claimed): an update that leaves the ingress URL unchanged does not
\* touch the camera's recording; an update that changes the ingress URL stops
\* the active recording (to finalize it) before the live segmenter is
\* restarted, so no recording child keeps reading the old URL.
C15_UrlChangeFinalizesRecording ==
  [][\A c \in CamIds, url \in Urls :
       PutCameraUrl(c, url)
         => IF url = cameras[c].rtspUrl
            THEN UNCHANGED <<recRows, recProcs, recordings>>
            ELSE RunningRecordings(c)' = {} /\ recordings'[c] = NoRec]_vars

\* C19 (as claimed): every event published by broadcast is sent to every
\* client whose connection to /ws is open at that moment.
C19_OpenClientsReceiveEveryEvent ==
  [][\A k \in (Len(events) + 1)..Len(events') : wsOpen \subseteq events'[k].to]_vars

\* C16 (as claimed): after stopStream the camera is idle until an explicit
\* start, restart or prober start; in particular the exit of the process that
\* stopStream killed does not arm the crash-restart timer.
C16_StopDoesNotArmRestart ==
  [][\A p \in 1..Len(procs) :
       (procs[p].st = "killed" /\ procs'[p].st = "exited") => timers' = timers]_vars

\* C17 (as claimed): start, stop and restart are idempotent. A second start or
\* restart replaces the running segmenter by one tracked running segmenter, as
\* the first command left it, and a stop leaves none: the process the command
\* replaced or stopped goes away without changing which process is tracked.
C17_CommandsIdempotent ==
  [][/\ \A p \in 1..Len(procs) :
          (procs[p].st = "killed" /\ procs'[p].st = "exited") => streams' = streams
     /\ \A c \in CamIds : DeleteCamera(c) => streams'[c] = NoProc /\ Running(c)' = {}]_vars

\* C18 (as claimed): every camera object a camera endpoint returns has no
\* encrypted secret and a masked or null username, and no camera row stores a
\* plaintext password.
C18_NoSecretsReturnedOrStored ==
  /\ \A b \in response.body :
       /\ b.encryptedPassword = "undefined"
       /\ b.username \in {"[HIDDEN]", "null"}
  /\ \A c \in CamIds : Exists(c) => cameras[c].password = NoPassword

\* C20 (as claimed): when a retention sweep ends, no finalized Recording of a
\* camera is left whose start_time is before the sweep's start minus the
\* camera's retention days (file and row are gone), and no step of the sweep
\* touches the row or the file of a Recording that started after the cutoff.
C20_SweepDeletesOldKeepsNew ==
  [][\A i \in Handlers : SweepStep(i) =>
       /\ h'[i].kind # "sweep" =>
            \A r \in 1..Len(recRows') :
              (recRows'[r].present /\ recRows'[r].endTime # Null /\ Exists(recRows'[r].cameraId))
                => recRows'[r].startTime >= h[i].t - cameras[recRows'[r].cameraId].retainDays * DayMs
       /\ \A r \in 1..Len(recRows) :
            (/\ recRows[r].present
             /\ Exists(recRows[r].cameraId)
             /\ recRows[r].startTime > cutoffDate(recRows[r].cameraId))
              => /\ recRows'[r] = recRows[r]
                 /\ (recRows[r].path \in files => recRows[r].path \in files')]_vars

\* C21 (as claimed): a sweep step whose Recording is finalized and whose file
\* is already missing still deletes the row.
C21_MissingFileRowStillDeleted ==
  [][\A i \in Handlers : SweepStep(i) =>
       LET id == Head(h[i].queue) IN
       (recRows[id].endTime # Null /\ recRows[id].path \notin files)
         => ~recRows'[id].present]_vars

\* C22 (as claimed): decrypting a string encryptCredentials issued returns
\* the text that was encrypted, and encrypting what decryptCredentials
\* returned for an issued string gives that string again.
C22_SealOpenRoundTrip ==
  [][/\ (Decrypt /\ sealed = issued) => opened' = Returned(plaintext)
     /\ \A iv \in Ivs : (Reseal(iv) /\ sealed = issued) => sealed' = sealed]_vars

\* C23 (as claimed): decrypting a string that differs from the issued one in
\* one character of its nonce, tag or body field fails.
C23_TamperedStringFailsToOpen ==
  [][(Decrypt /\ sealed # issued) => opened'.st = "throws"]_vars

\* C24 (as claimed): once the prober has published camera-status for a
\* camera, the camera's stored status is the status of the last such event,
\* and getSystemStats counts as active exactly the cameras whose last
\* published status is online.
C24_PublishedStatusIsStored ==
  /\ \A c \in CamIds :
       (Exists(c) /\ StatusEvents(c) # <<>>)
         => cameras[c].status = StatusEvents(c)[Len(StatusEvents(c))].status
  /\ activeCameras = Cardinality({c \in CamIds :
                        /\ Exists(c)
                        /\ StatusEvents(c) # <<>>
                        /\ StatusEvents(c)[Len(StatusEvents(c))].status = "online"})

\* The status the prober last published for camera c ("none" before any).
LastPublishedStatus(c) ==
  IF StatusEvents(c) = <<>> THEN "none" ELSE StatusEvents(c)[Len(StatusEvents(c))].status

\* C25 (as claimed): a camera whose recording mode is continuous and whose
\* status (stored, or last published by the prober) is online has a recording:
\* one tracked or running, or a start of one in flight.
C25_ContinuousOnlineIsRecording ==
  \A c \in CamIds :
    (/\ Exists(c)
     /\ cameras[c].mode = "continuous"
     /\ (cameras[c].status = "online" \/ LastPublishedStatus(c) = "online"))
      => \/ recordings[c] # NoRec
         \/ RunningRecordings(c) # {}
         \/ \E i \in Handlers : h[i].kind = "startRecord" /\ h[i].cam = c

\* C26 (as claimed): a read of a plate whose key (plate, floor(now / 5 s)) was
\* already accepted for the camera creates no second ANPR event, with or
\* without a worker started: no two rows of a camera have the same key.
C26_OneShotIsDeduplicated ==
  \A j \in 1..Len(anprRows), k \in 1..Len(anprRows) :
    (/\ j < k
     /\ anprRows[j].cameraId = anprRows[k].cameraId)
      => cacheKey(anprRows[j].plate, anprRows[j].timestamp)
           # cacheKey(anprRows[k].plate, anprRows[k].timestamp)

\* C27 (as claimed): the restart armed by a camera's first failed segmenter
\* is due 5 s later; the restart armed by a failed segmenter that a restart
\* started (a further consecutive failure: less than 60 s have passed) is due
\* after a longer delay; no delay exceeds 60 s.
C27_RestartBackoff ==
  [][\A p \in 1..Len(procs) :
       (/\ procs[p].st = "running"
        /\ procs'[p].st = "exited"
        /\ Len(timers') = Len(timers) + 1
        /\ now < 60000)
         => LET delay == timers'[Len(timers')].due - now
                earlier == {q \in 1..(p - 1) : procs[q].cam = procs[p].cam}
            IN /\ delay <= 60000
               /\ earlier = {} => delay = RestartDelayMs
               /\ earlier # {} => delay > RestartDelayMs]_vars

\* C28 (as claimed): a prober tick leaves every running live segmenter
\* running and tracked, and starts the live pipeline only for cameras that
\* have no running segmenter.
C28_ProberSparesRunningSegmenter ==
  [][HealthTick =>
       /\ \A p \in 1..Len(procs) : procs[p].st = "running" => procs'[p].st = "running"
       /\ \A c \in CamIds : Running(c) # {} =>
            /\ streams'[c] = streams[c]
            /\ \A i \in Handlers : ~(h[i].pc = "free" /\ h'[i].kind = "prober" /\ h'[i].cam = c)]_vars

\* C29 (as claimed): a Recording row is open only while its child process
\* runs or a stop-record is finalizing it: once the child has terminated on
\* its own the row has its end_time.
C29_ExitedChildRowFinalized ==
  \A r \in 1..Len(recRows) :
    (recRows[r].present /\ recRows[r].endTime = Null)
      => \/ recProcs[r] = "running"
         \/ \E i \in Handlers : h[i].kind = "stopRecord" /\ h[i].rec = r

\* C30 (as claimed): the plate of every stored ANPR event is non-empty and
\* normalized: at least 3 characters, all of them uppercase letters or digits.
C30_StoredPlateNormalized ==
  \A k \in 1..Len(anprRows) :
    /\ anprRows[k].plate # NoPlate
    /\ Len(Chars(anprRows[k].plate)) >= 3
    /\ \A j \in 1..Len(Chars(anprRows[k].plate)) : Chars(anprRows[k].plate)[j] \in AlphaNum

\* C31 (as claimed): a tick creates no ANPR event from a failed call: none
\* at the return of a runOCR whose text extractor failed, and none for a
\* region that came from a failed detector.
C31_NoEventFromFailedCall ==
  [][\A i \in Handlers :
       /\ \A raw \in RawTexts, pick \in plateFormats \cup {NoPlate} :
            ProcessFrameRunOcr(i, raw, TRUE, pick) => anprRows' = anprRows
       /\ (h[i].kind = "processFrame" /\ h[i].pc = "ocr" /\ h[i].fallback /\ h'[i] # h[i])
            => anprRows' = anprRows]_vars

\* C32: when an ANPR tick that extracted a frame ends, from whichever point
\* after the extraction, its temporary frame file does not exist.
C32_FrameDeletedWhenTickEnds ==
  [][\A i \in Handlers :
       (/\ h[i].kind = "processFrame"
        /\ h[i].pc \in {"detect", "ocr", "unlink"}
        /\ h'[i].pc = "free")
         => framePath(h[i].cam, h[i].t) \notin frames']_vars

\* C32 witness: a tick has extracted a frame, stored an event and ended, no
\* tick is in flight and no frame file is left.
C32_Witness ==
  /\ Len(anprRows) >= 1
  /\ \A i \in Handlers : h[i].pc = "free"
  /\ frames = {}

C34_NoSegmenterAfterDelete ==
  \A c \in usedIds : ~Exists(c) => Running(c) = {}

\* C35 (as claimed): after a camera is created or updated with a username and
\* a password its row holds a sealed secret, and the ingress URL built from
\* the row carries the credentials.
C35_PasswordIsStoredSealed ==
  [][\A user \in Usernames, pw \in Passwords : (truthy(user) /\ truthy(pw)) =>
       /\ \A url \in Urls, hls \in BOOLEAN :
            PostCameraWith(url, hls, user, pw)
              => /\ cameras'[NewId].encryptedPassword # "null"
                 /\ urlCarriesCredentials(cameras'[NewId])
       /\ \A c \in CamIds :
            PutCameraCreds(c, user, pw)
              => /\ cameras'[c].encryptedPassword # "null"
                 /\ urlCarriesCredentials(cameras'[c])]_vars


\* C36: when the tick that created an ANPR event finishes, the snapshot path
\* stored in that event still names an existing frame file.
C36_SnapshotOutlivesTick ==
  [][\A i \in Handlers :
       (h[i].kind = "processFrame" /\ h[i].pc = "unlink" /\ h'[i].pc = "free")
         => \A k \in 1..Len(anprRows') :
              anprRows'[k].snapshotPath = framePath(h[i].cam, h[i].t)
                => anprRows'[k].snapshotPath \in frames']_vars


\* C37: when POST /cameras answers with a failure, nothing of the request
\* remains: no camera row, no health-monitor entry, no live segmenter and no
\* camera-added event for the camera.
C37_FailedPostLeavesNoTrace ==
  [][\A i \in Handlers :
       (h[i].kind = "postCamera" /\ h[i].pc = "mkdir" /\ h'[i].pc = "free"
          /\ response'.res = "400")
         => LET c == h[i].cam IN
            /\ ~cameras'[c].present
            /\ \A k \in 1..Len(monitoredCameras') : monitoredCameras'[k] # c
            /\ \A p \in 1..Len(procs') : ~(procs'[p].cam = c /\ procs'[p].st = "running")
            /\ \A k \in 1..Len(events') :
                 ~(events'[k].topic = "camera-added" /\ events'[k].cam = c)]_vars


C39_EventPayloadHidesCredentials ==
  \A k \in 1..Len(events) : \A d \in events[k].data :
    /\ d.username = "[HIDDEN]" \/ ~truthy(d.username)
    /\ d.encryptedPassword \in {"undefined", "null"}


\* C40: while the hook is mounted, a closed connection is followed by a new
\* one 3 s later; once the effect is cleaned up no new connection is opened
\* and no reconnect is scheduled (the cleanup's close arms no timeout).
C40_NoReconnectAfterUnmount ==
  [][/\ (effect = "active" /\ \E s \in 1..Len(sockets) : SocketClosed(s))
          => reconnectTimer' = clientNow + 3000
     /\ (effect = "active" /\ ReconnectFire) => clientNow = reconnectTimer
     /\ effect = "cleaned" => /\ Len(sockets') = Len(sockets)
                              /\ reconnectTimer' = Null]_vars

====
